---- MODULE Spec2Model ----
(***************************************************************************)
(* Model of libaudcore/plugin-load.c: plugin_load, plugin2_unload and      *)
(* plugin_system_cleanup, run by several loader threads and one shutdown   *)
(* thread over the global list loaded_modules and its mutex; and           *)
(* plugin_system_init with the directory scan it runs at startup.          *)
(***************************************************************************)
EXTENDS Integers, Sequences, FiniteSets, TLC

\* ---------------------------------------------------------------- bounds
NumLoaders == 2          \* threads that call plugin_load
MaxLoads   == 2          \* total number of plugin_load calls in a run
MaxUnloads == 2          \* number of plugin_system_cleanup calls in a run
MaxFiles   == 2          \* directory entries under the plugin base path
MaxMissing == 1          \* category directories that cannot be opened

\* ------------------------------------------------------- program constants
AUD_PLUGIN_MAGIC       == 1
AUD_PLUGIN_VERSION_MIN == 2
AUD_PLUGIN_VERSION     == 3

VALGRIND_FRIENDLY == FALSE

NULL == 0

\* ------------------------------------------------------ module files on disk
\* A module file as plugin_load sees it: whether g_module_open succeeds,
\* whether _aud_plugin_self is exported, and the fields of the Plugin header.
Mod(opens, sym, magic, version, type, hasInit, initOK, hasCleanup) ==
    [opens |-> opens, sym |-> sym, magic |-> magic, version |-> version,
     type |-> type, hasInit |-> hasInit, initOK |-> initOK,
     hasCleanup |-> hasCleanup]

Catalogue ==
    << Mod(FALSE, FALSE, AUD_PLUGIN_MAGIC + 1, 0, "General", FALSE, FALSE, FALSE),
       Mod(TRUE, FALSE, AUD_PLUGIN_MAGIC + 1, 0, "General", FALSE, FALSE, FALSE),
       Mod(TRUE, TRUE, AUD_PLUGIN_MAGIC + 1, AUD_PLUGIN_VERSION, "Input", TRUE, TRUE, TRUE),
       Mod(TRUE, TRUE, AUD_PLUGIN_MAGIC + 1, AUD_PLUGIN_VERSION + 1, "Input", TRUE, TRUE, TRUE),
       Mod(TRUE, TRUE, AUD_PLUGIN_MAGIC, AUD_PLUGIN_VERSION_MIN - 1, "Input", TRUE, TRUE, TRUE),
       Mod(TRUE, TRUE, AUD_PLUGIN_MAGIC, AUD_PLUGIN_VERSION + 1, "Effect", TRUE, TRUE, TRUE),
       Mod(TRUE, TRUE, AUD_PLUGIN_MAGIC, AUD_PLUGIN_VERSION_MIN, "Transport", TRUE, TRUE, TRUE),
       Mod(TRUE, TRUE, AUD_PLUGIN_MAGIC, AUD_PLUGIN_VERSION, "Playlist", FALSE, FALSE, TRUE),
       Mod(TRUE, TRUE, AUD_PLUGIN_MAGIC, AUD_PLUGIN_VERSION, "Input", TRUE, TRUE, TRUE),
       Mod(TRUE, TRUE, AUD_PLUGIN_MAGIC, AUD_PLUGIN_VERSION, "Input", TRUE, FALSE, TRUE),
       Mod(TRUE, TRUE, AUD_PLUGIN_MAGIC, AUD_PLUGIN_VERSION_MIN, "Effect", TRUE, TRUE, FALSE),
       Mod(TRUE, TRUE, AUD_PLUGIN_MAGIC, AUD_PLUGIN_VERSION, "Output", TRUE, FALSE, TRUE),
       Mod(TRUE, TRUE, AUD_PLUGIN_MAGIC, AUD_PLUGIN_VERSION, "General", TRUE, TRUE, TRUE),
       Mod(TRUE, TRUE, AUD_PLUGIN_MAGIC, AUD_PLUGIN_VERSION_MIN, "Visualization", FALSE, FALSE, FALSE) >>

Paths == 1 .. Len(Catalogue)

\* The files the concurrent runs load: one that fails validation, one of a
\* hook kind whose init succeeds, one whose init fails, one hook kind without
\* a cleanup hook, and one kind whose hooks are ignored.
ConcurrentPaths == {4, 7, 10, 11, 12}

\* ------------------------------------------------- plugin directories on disk
\* lines 37-45
plugin_dir_list ==
    << "Transport", "Container", "Input", "Output", "Effect", "General",
       "Visualization" >>

\* line 166: ARRAY_LEN (plugin_dir_list)
DirCountShort == Len(plugin_dir_list) - 1
DirCount == Len(plugin_dir_list)

Dirs == 1 .. DirCount

\* The platform's module suffix, as a string of characters.
PLUGIN_SUFFIX == << ".", "s", "o" >>

\* A directory entry: its name, what it is, what a symbolic link points to,
\* whether stat on it fails, and the modification time stat reports.
File(name, type, target, statErr, mtime) ==
    [name |-> name, type |-> type, target |-> target, statErr |-> statErr,
     mtime |-> mtime]

FileCatalogue ==
    << File(<< "a", ".", "s", "o" >>, "regular", "none", FALSE, 1),
       File(<< "b", ".", "s", "o" >>, "regular", "none", TRUE, 1),
       File(<< "c", ".", "S", "O" >>, "regular", "none", FALSE, 2),
       File(<< "d", ".", "s", "o" >>, "symlink", "regular", FALSE, 1),
       File(<< "e", ".", "s", "o" >>, "directory", "none", FALSE, 1),
       File(<< "f", ".", "t", "x", "t" >>, "regular", "none", FALSE, 2),
       File(<< "g", ".", "s", "o" >>, "socket", "none", FALSE, 1) >>

Files == 1 .. Len(FileCatalogue)

\* The subsets of S with at most k elements.
RECURSIVE SubsetsUpTo(_, _)
SubsetsUpTo(S, k) ==
    IF k = 0 THEN { {} }
    ELSE LET prev == SubsetsUpTo(S, k - 1)
         IN  prev \cup { A \cup {x} : A \in prev, x \in S }

\* tolower () on the characters used in file names
ToLower(c) ==
    CASE c = "S" -> "s"
      [] c = "O" -> "o"
      [] OTHER -> c

\* str_has_suffix_nocase (str, suffix)
StrHasSuffixNocase(str, suffix) ==
    /\ Len(str) >= Len(suffix)
    /\ \A i \in 1 .. Len(suffix) :
        ToLower(str[Len(str) - Len(suffix) + i]) = ToLower(suffix[i])

\* line 137: the basename test of scan_plugin_func
SuffixMatchesCase(f) ==
    /\ Len(f.name) >= Len(PLUGIN_SUFFIX)
    /\ \A i \in 1 .. Len(PLUGIN_SUFFIX) :
        f.name[Len(f.name) - Len(PLUGIN_SUFFIX) + i] = PLUGIN_SUFFIX[i]
SuffixMatches(f) == StrHasSuffixNocase(f.name, PLUGIN_SUFFIX)

\* line 141: g_stat (path, & st); it follows symbolic links.
GStat(f) ==
    IF f.statErr
    THEN [ret |-> 0 - 1, mode |-> "none", mtime |-> 0]
    ELSE [ret |-> 0,
          mode |-> IF f.type = "symlink" THEN f.target ELSE f.type,
          mtime |-> f.mtime]

\* line 147: S_ISREG (st.st_mode)
S_ISREG(mode) == mode = "regular"

\* lines 135-151: scan_plugin_func: whether plugin_register is called, with
\* which modification time, and the value returned to dir_foreach.
ScanPluginFuncStopsOnStatError(f) ==
    IF ~ SuffixMatches(f)
    THEN [register |-> FALSE, mtime |-> 0, ret |-> FALSE]
    ELSE IF GStat(f).ret < 0
    THEN [register |-> FALSE, mtime |-> 0, ret |-> TRUE]
    ELSE [register |-> S_ISREG(GStat(f).mode), mtime |-> GStat(f).mtime,
          ret |-> FALSE]
ScanPluginFunc(f) ==
    IF ~ SuffixMatches(f)
    THEN [register |-> FALSE, mtime |-> 0, ret |-> FALSE]
    ELSE IF GStat(f).ret < 0
    THEN [register |-> FALSE, mtime |-> 0, ret |-> FALSE]
    ELSE [register |-> S_ISREG(GStat(f).mode), mtime |-> GStat(f).mtime,
          ret |-> FALSE]

\* ------------------------------------------------------------------ threads
Loaders   == 1 .. NumLoaders
Unloader  == NumLoaders + 1
Threads   == Loaders \cup {Unloader}
Calls     == 1 .. MaxLoads      \* a call and the module handle it opens share an id

VARIABLES
    pc,              \* position of every thread
    module,          \* plugin_load: the local GModule * module of a running call
    list,            \* plugin_load: the value of loaded_modules read by g_list_prepend
    filename,        \* plugin_load call -> its filename argument
    result,          \* plugin_load call -> what it returned
    mutex,           \* owner of the pthread mutex, NULL when free
    loaded_modules,  \* head of the GList, NULL when empty
    nodeNext,        \* GList node -> next node
    nodeFreed,       \* GList nodes released by g_list_free
    slotFreed,       \* LoadedModule structs released by g_slice_free
    nextCall,        \* id of the next plugin_load call
    closeCount,      \* module handle -> number of g_module_close calls
    initRes,         \* module handle -> outcome of header->init ()
    cleanupCalls,    \* module handle -> number of header->cleanup () calls
    node,            \* plugin_system_cleanup: loop cursor
    unloadCalls,     \* number of plugin_system_cleanup calls started
    saveCount,       \* number of plugin_registry_save calls
    prevOp,          \* the call that was entered or completed last
    crashed,         \* the process died on an invalid memory access
    sysPc,           \* plugin_system_init: position
    dirI,            \* plugin_system_init: the loop index i (1-based)
    entryI,          \* dir_foreach: the last directory entry handed out
    fs,              \* the plugin base path: category directory -> its entries
    events           \* calls made on the registry and the scanner, in order

vars == << pc, module, list, filename, result, mutex, loaded_modules, nodeNext,
           nodeFreed, slotFreed, nextCall, closeCount, initRes,
           cleanupCalls, node, unloadCalls, saveCount, prevOp, crashed,
           sysPc, dirI, entryI, fs, events >>

loaderVars == << module, list, filename, result, nextCall >>
heapVars   == << loaded_modules, nodeNext, nodeFreed, slotFreed >>
handleVars == << closeCount, initRes, cleanupCalls >>
unloadVars == << node, unloadCalls, saveCount >>
startupVars == << sysPc, dirI, entryI, fs, events >>
runtimeVars == << pc, loaderVars, mutex, heapVars, handleVars, unloadVars,
                 prevOp, crashed >>

\* ------------------------------------------------------------------ helpers
\* The Plugin header a call's module exports.
Header(h) == Catalogue[filename[h]]

\* line 71: ! header || header->magic != _AUD_PLUGIN_MAGIC
NotAPluginNoMagic(m) == ~ m.sym
NotAPlugin(m) == ~ m.sym \/ m.magic # AUD_PLUGIN_MAGIC

\* lines 78-79
IncompatibleNoUpper(m) == m.version < AUD_PLUGIN_VERSION_MIN
IncompatibleNoLower(m) == m.version > AUD_PLUGIN_VERSION
Incompatible(m) ==
    m.version < AUD_PLUGIN_VERSION_MIN \/ m.version > AUD_PLUGIN_VERSION

\* lines 87-90 and 116-119: the kinds whose init / cleanup hooks are run
HasHooksAlsoOutput(type) ==
    type \in {"Transport", "Playlist", "Input", "Effect", "Output"}
HasHooksAlsoGeneral(type) ==
    type \in {"Transport", "Playlist", "Input", "Effect", "General"}
HasHooksNoPlaylist(type) == type \in {"Transport", "Input", "Effect"}
HasHooks(type) == type \in {"Transport", "Playlist", "Input", "Effect"}

\* line 92: PLUGIN_HAS_FUNC (header, init) && ! header->init ()
InitFailsIgnored(m) == FALSE
InitFails(m) == m.hasInit /\ ~ m.initOK

\* lines 60-85: the error plugin_load reports for a module file before any
\* hook runs, "none" when the file passes.
Validate(m) ==
    IF ~ m.opens THEN "OpenFailed"
    ELSE IF NotAPlugin(m) THEN "NotAPlugin"
    ELSE IF Incompatible(m) THEN "IncompatibleVersion"
    ELSE "none"

\* The nodes reachable from a list head through next pointers.
RECURSIVE Chain(_)
Chain(n) == IF n = NULL THEN << >> ELSE << n >> \o Chain(nodeNext[n])

LoadedSeq == Chain(loaded_modules)
LoadedSet == { LoadedSeq[i] : i \in 1 .. Len(LoadedSeq) }

RuntimeInit ==
    /\ pc = [t \in Threads |-> "idle"]
    /\ module = [t \in Loaders |-> NULL]
    /\ list = [t \in Loaders |-> NULL]
    /\ filename = [h \in Calls |-> NULL]
    /\ result = [h \in Calls |-> "none"]
    /\ mutex = NULL
    /\ loaded_modules = NULL
    /\ nodeNext = [h \in Calls |-> NULL]
    /\ nodeFreed = {}
    /\ slotFreed = {}
    /\ nextCall = 1
    /\ closeCount = [h \in Calls |-> 0]
    /\ initRes = [h \in Calls |-> "none"]
    /\ cleanupCalls = [h \in Calls |-> 0]
    /\ node = NULL
    /\ unloadCalls = 0
    /\ saveCount = 0
    /\ prevOp = "none"
    /\ crashed = FALSE

\* The category directories that hold entries in the disks explored: the
\* first, one in the middle and the last of plugin_dir_list.  Any directory
\* may be missing.
PopulatedDirs ==
    { d \in Dirs : plugin_dir_list[d] \in {"Transport", "Input", "Visualization"} }

\* A plugin base path: every category directory either cannot be opened or
\* holds some entries.
Disks ==
    { [d \in Dirs |-> [missing |-> d \in M,
                       files |-> { f \in Files : << d, f >> \in P }]] :
        P \in SubsetsUpTo(PopulatedDirs \X Files, MaxFiles),
        M \in SubsetsUpTo(Dirs, MaxMissing) }

\* The runs of plugin_load and plugin_system_cleanup start when
\* plugin_system_init has returned.
Init ==
    /\ RuntimeInit
    /\ sysPc = "done"
    /\ dirI = DirCount + 1
    /\ entryI = 0
    /\ fs = [d \in Dirs |-> [missing |-> FALSE, files |-> {}]]
    /\ events = << >>

\* The process starts, plugin_system_init has not been called yet.
InitStartup ==
    /\ RuntimeInit
    /\ sysPc = "start"
    /\ dirI = 0
    /\ entryI = 0
    /\ fs \in { d \in Disks : \A i \in Dirs : d[i].missing => d[i].files = {} }
    /\ events = << >>

\* ------------------------------------------------------------- plugin_load
\* lines 55-90: g_module_open, symbol lookup, magic and version checks.  The
\* handle is private to the calling thread here, so the checks are one step.
\* A failed open returns at once; a failed check closes the module and
\* returns; otherwise the call goes on to the init hook or to the insertion.
LoadOpen(t, files) ==
    /\ ~ crashed
    /\ UNCHANGED startupVars
    /\ pc[t] = "idle"
    /\ nextCall <= MaxLoads
    /\ \E p \in files :
        LET m == Catalogue[p]
            h == nextCall
        IN  /\ filename' = [filename EXCEPT ![h] = p]
            /\ nextCall' = h + 1
            /\ IF Validate(m) # "none"
               THEN /\ result' = [result EXCEPT ![h] = Validate(m)]
                    /\ closeCount' = IF m.opens
                                     THEN [closeCount EXCEPT ![h] = @ + 1]
                                     ELSE closeCount
                    /\ UNCHANGED << module, pc >>
               ELSE /\ result' = [result EXCEPT ![h] = "running"]
                    /\ module' = [module EXCEPT ![t] = h]
                    /\ pc' = [pc EXCEPT ![t] =
                                IF HasHooks(m.type) /\ m.hasInit
                                THEN "init" ELSE "lock"]
                    /\ UNCHANGED closeCount
    /\ prevOp' = "load"
    /\ UNCHANGED << list, mutex, heapVars, initRes, cleanupCalls, unloadVars,
                    crashed >>

\* lines 92-97: header->init () runs and returns; a false return closes the
\* module and fails the call.
LoadInit(t) ==
    /\ ~ crashed
    /\ UNCHANGED startupVars
    /\ pc[t] = "init"
    /\ LET h == module[t]
           m == Header(h)
       IN  /\ initRes' = [initRes EXCEPT ![h] = IF m.initOK THEN "ok" ELSE "fail"]
           /\ IF InitFails(m)
              THEN /\ closeCount' = [closeCount EXCEPT ![h] = @ + 1]
                   /\ result' = [result EXCEPT ![h] = "InitFailed"]
                   /\ module' = [module EXCEPT ![t] = NULL]
                   /\ pc' = [pc EXCEPT ![t] = "idle"]
              ELSE /\ pc' = [pc EXCEPT ![t] = "lock"]
                   /\ UNCHANGED << closeCount, result, module >>
    /\ UNCHANGED << list, filename, nextCall, mutex, heapVars, cleanupCalls,
                    unloadVars, prevOp, crashed >>

\* lines 100-104, first half: pthread_mutex_lock, the LoadedModule is
\* allocated and filled in, and g_list_prepend reads loaded_modules as its
\* argument.
LoadLockNoMutex(t) ==
    /\ ~ crashed
    /\ UNCHANGED startupVars
    /\ pc[t] = "lock"
    /\ mutex' = t
    /\ list' = [list EXCEPT ![t] = loaded_modules]
    /\ pc' = [pc EXCEPT ![t] = "link"]
    /\ UNCHANGED << module, filename, result, nextCall, heapVars, handleVars,
                    unloadVars, prevOp, crashed >>

LoadLock(t) ==
    /\ ~ crashed
    /\ UNCHANGED startupVars
    /\ pc[t] = "lock"
    /\ mutex = NULL
    /\ mutex' = t
    /\ list' = [list EXCEPT ![t] = loaded_modules]
    /\ pc' = [pc EXCEPT ![t] = "link"]
    /\ UNCHANGED << module, filename, result, nextCall, heapVars, handleVars,
                    unloadVars, prevOp, crashed >>

\* line 104, second half: the new node is linked in front of the list that
\* was read (g_list_prepend also writes list->prev) and stored as the head.
\* Writing into a node that g_list_free released is an invalid access: the
\* write lands in the stale memory or the process dies.
LoadPrepend(t) ==
    /\ ~ crashed
    /\ UNCHANGED startupVars
    /\ pc[t] = "link"
    /\ \E ok \in IF list[t] \in nodeFreed THEN BOOLEAN ELSE {TRUE} :
        IF ok
        THEN /\ nodeNext' = [nodeNext EXCEPT ![module[t]] = list[t]]
             /\ loaded_modules' = module[t]
             /\ pc' = [pc EXCEPT ![t] = "unlock"]
             /\ UNCHANGED crashed
        ELSE /\ crashed' = TRUE
             /\ UNCHANGED << nodeNext, loaded_modules, pc >>
    /\ UNCHANGED << loaderVars, mutex, nodeFreed, slotFreed, handleVars,
                    unloadVars, prevOp >>

\* lines 105-107: pthread_mutex_unlock; return header.
LoadUnlock(t) ==
    /\ ~ crashed
    /\ UNCHANGED startupVars
    /\ pc[t] = "unlock"
    /\ mutex' = NULL
    /\ result' = [result EXCEPT ![module[t]] = "OK"]
    /\ module' = [module EXCEPT ![t] = NULL]
    /\ list' = [list EXCEPT ![t] = NULL]
    /\ pc' = [pc EXCEPT ![t] = "idle"]
    /\ UNCHANGED << filename, nextCall, heapVars, handleVars, unloadVars, prevOp, crashed >>

\* --------------------------------------------------- plugin_system_cleanup
\* lines 176-180: entry, plugin_registry_save (), then node = loaded_modules
\* (read without the mutex) and the loop test.
CleanupSave ==
    /\ ~ crashed
    /\ UNCHANGED startupVars
    /\ pc[Unloader] = "idle"
    /\ unloadCalls < MaxUnloads
    /\ unloadCalls' = unloadCalls + 1
    /\ saveCount' = saveCount + 1
    /\ node' = loaded_modules
    /\ pc' = [pc EXCEPT ![Unloader] =
                IF loaded_modules = NULL THEN "u_gfree" ELSE "u_hook"]
    /\ UNCHANGED << loaderVars, mutex, heapVars, handleVars, prevOp, crashed >>

\* lines 181, 112-123: plugin2_unload (node->data) reads the header and runs
\* the cleanup hook.  Reading a released node or LoadedModule is an invalid
\* access: the stale contents are read or the process dies.
UnloadHook ==
    /\ ~ crashed
    /\ UNCHANGED startupVars
    /\ pc[Unloader] = "u_hook"
    /\ \E ok \in IF node \in nodeFreed \/ node \in slotFreed
                 THEN BOOLEAN ELSE {TRUE} :
        IF ok
        THEN /\ cleanupCalls' =
                    IF HasHooks(Header(node).type) /\ Header(node).hasCleanup
                    THEN [cleanupCalls EXCEPT ![node] = @ + 1]
                    ELSE cleanupCalls
             /\ pc' = [pc EXCEPT ![Unloader] = "u_lock"]
             /\ UNCHANGED crashed
        ELSE /\ crashed' = TRUE
             /\ UNCHANGED << cleanupCalls, pc >>
    /\ UNCHANGED << loaderVars, mutex, heapVars, closeCount, initRes,
                    unloadVars, prevOp >>

\* line 125
UnloadLockNoMutex ==
    /\ ~ crashed
    /\ UNCHANGED startupVars
    /\ pc[Unloader] = "u_lock"
    /\ pc' = [pc EXCEPT ![Unloader] = "u_close"]
    /\ UNCHANGED << loaderVars, mutex, heapVars, handleVars, unloadVars,
                    prevOp, crashed >>

UnloadLock ==
    /\ ~ crashed
    /\ UNCHANGED startupVars
    /\ pc[Unloader] = "u_lock"
    /\ mutex = NULL
    /\ mutex' = Unloader
    /\ pc' = [pc EXCEPT ![Unloader] = "u_close"]
    /\ UNCHANGED << loaderVars, heapVars, handleVars, unloadVars, prevOp,
                    crashed >>

\* lines 126-129: g_module_close and g_slice_free.  Releasing a LoadedModule
\* a second time is an invalid access.
UnloadClose ==
    /\ ~ crashed
    /\ UNCHANGED startupVars
    /\ pc[Unloader] = "u_close"
    /\ \E ok \in IF node \in slotFreed THEN BOOLEAN ELSE {TRUE} :
        IF ok
        THEN /\ closeCount' =
                    IF VALGRIND_FRIENDLY THEN closeCount
                    ELSE [closeCount EXCEPT ![node] = @ + 1]
             /\ slotFreed' = slotFreed \cup {node}
             /\ pc' = [pc EXCEPT ![Unloader] = "u_unlock"]
             /\ UNCHANGED crashed
        ELSE /\ crashed' = TRUE
             /\ UNCHANGED << closeCount, slotFreed, pc >>
    /\ UNCHANGED << loaderVars, mutex, loaded_modules, nodeNext, nodeFreed,
                    initRes, cleanupCalls, unloadVars, prevOp >>

\* lines 130 and 180: pthread_mutex_unlock, return, node = node->next and the
\* loop test.
UnloadUnlockKeepsMutex ==
    /\ ~ crashed
    /\ UNCHANGED startupVars
    /\ pc[Unloader] = "u_unlock"
    /\ mutex' = IF nodeNext[node] = NULL THEN NULL ELSE mutex
    /\ node' = nodeNext[node]
    /\ pc' = [pc EXCEPT ![Unloader] =
                IF nodeNext[node] = NULL THEN "u_gfree" ELSE "u_hook"]
    /\ UNCHANGED << loaderVars, heapVars, handleVars, unloadCalls, saveCount,
                    prevOp, crashed >>

UnloadUnlock ==
    /\ ~ crashed
    /\ UNCHANGED startupVars
    /\ pc[Unloader] = "u_unlock"
    /\ mutex' = NULL
    /\ node' = nodeNext[node]
    /\ pc' = [pc EXCEPT ![Unloader] =
                IF nodeNext[node] = NULL THEN "u_gfree" ELSE "u_hook"]
    /\ UNCHANGED << loaderVars, heapVars, handleVars, unloadCalls, saveCount,
                    prevOp, crashed >>

\* line 183: g_list_free (loaded_modules), without the mutex.  Releasing a
\* node a second time is an invalid access.
CleanupListFree ==
    /\ ~ crashed
    /\ UNCHANGED startupVars
    /\ pc[Unloader] = "u_gfree"
    /\ \E ok \in IF LoadedSet \cap nodeFreed # {} THEN BOOLEAN ELSE {TRUE} :
        IF ok
        THEN /\ nodeFreed' = nodeFreed \cup LoadedSet
             /\ pc' = [pc EXCEPT ![Unloader] = "u_clear"]
             /\ UNCHANGED crashed
        ELSE /\ crashed' = TRUE
             /\ UNCHANGED << nodeFreed, pc >>
    /\ UNCHANGED << loaderVars, mutex, loaded_modules, nodeNext, slotFreed,
                    handleVars, unloadVars, prevOp >>

\* line 184: loaded_modules = NULL, without the mutex; return.
CleanupClearKeepsList ==
    /\ ~ crashed
    /\ UNCHANGED startupVars
    /\ pc[Unloader] = "u_clear"
    /\ pc' = [pc EXCEPT ![Unloader] = "idle"]
    /\ node' = NULL
    /\ prevOp' = "unload"
    /\ UNCHANGED << loaderVars, mutex, heapVars, handleVars, unloadCalls,
                    saveCount, crashed >>

CleanupClear ==
    /\ ~ crashed
    /\ UNCHANGED startupVars
    /\ pc[Unloader] = "u_clear"
    /\ loaded_modules' = NULL
    /\ pc' = [pc EXCEPT ![Unloader] = "idle"]
    /\ node' = NULL
    /\ prevOp' = "unload"
    /\ UNCHANGED << loaderVars, mutex, nodeNext, nodeFreed, slotFreed,
                    handleVars, unloadCalls, saveCount, crashed >>

\* ------------------------------------------------------ plugin_system_init
\* lines 158-166: plugin_registry_load (), the plugin path, i = 0.
SystemInitLoad ==
    /\ sysPc = "start"
    /\ events' = Append(events, << "load" >>)
    /\ dirI' = 1
    /\ sysPc' = "loop"
    /\ UNCHANGED << entryI, fs, runtimeVars >>

\* lines 166-169, 153-156: the loop test, filename_build and scan_plugins,
\* which hands the directory to dir_foreach.  A directory that cannot be
\* opened yields no entry.
ScanPlugins ==
    /\ sysPc = "loop"
    /\ dirI <= DirCount
    /\ events' = Append(events, << "scan", plugin_dir_list[dirI] >>)
    /\ entryI' = 0
    /\ IF fs[dirI].missing
       THEN dirI' = dirI + 1 /\ UNCHANGED sysPc
       ELSE sysPc' = "dir" /\ UNCHANGED dirI
    /\ UNCHANGED << fs, runtimeVars >>

\* The entries of the current directory that dir_foreach has not handed out.
Remaining == { f \in fs[dirI].files : f > entryI }

\* lines 135-151: dir_foreach calls scan_plugin_func on the next entry; a
\* true return ends the walk of this directory.
DirForeachEntry ==
    /\ sysPc = "dir"
    /\ Remaining # {}
    /\ LET f == CHOOSE x \in Remaining : \A y \in Remaining : x <= y
           r == ScanPluginFunc(FileCatalogue[f])
       IN  /\ entryI' = f
           /\ events' =
                IF r.register
                THEN Append(events, << "register", plugin_dir_list[dirI],
                                       FileCatalogue[f].name, r.mtime >>)
                ELSE events
           /\ IF r.ret
              THEN dirI' = dirI + 1 /\ sysPc' = "loop"
              ELSE UNCHANGED << dirI, sysPc >>
    /\ UNCHANGED << fs, runtimeVars >>

\* lines 170 and 166: the directory is exhausted, str_unref, i ++.
DirForeachEnd ==
    /\ sysPc = "dir"
    /\ Remaining = {}
    /\ dirI' = dirI + 1
    /\ sysPc' = "loop"
    /\ UNCHANGED << entryI, fs, events, runtimeVars >>

\* line 173: plugin_registry_prune () after the loop; return.
SystemInitPruneEarly ==
    /\ sysPc = "loop"
    /\ events' = Append(events, << "prune" >>)
    /\ sysPc' = "done"
    /\ UNCHANGED << dirI, entryI, fs, runtimeVars >>

SystemInitPrune ==
    /\ sysPc = "loop"
    /\ dirI > DirCount
    /\ events' = Append(events, << "prune" >>)
    /\ sysPc' = "done"
    /\ UNCHANGED << dirI, entryI, fs, runtimeVars >>

\* ------------------------------------------------------------ specifications
LoadStep(t, files) ==
    \/ LoadOpen(t, files)
    \/ LoadInit(t)
    \/ LoadLock(t)
    \/ LoadPrepend(t)
    \/ LoadUnlock(t)

CleanupStep ==
    \/ CleanupSave
    \/ UnloadHook
    \/ UnloadLock
    \/ UnloadClose
    \/ UnloadUnlock
    \/ CleanupListFree
    \/ CleanupClear

\* Loader threads and the shutdown thread interleave freely.
Next ==
    \/ \E t \in Loaders : LoadStep(t, ConcurrentPaths)
    \/ CleanupStep

Spec == Init /\ [][Next]_vars

\* One caller at a time: a call starts only when no other call is in progress.
Quiet(t) == \A u \in Threads \ {t} : pc[u] = "idle"

NextSeq ==
    \/ \E t \in Loaders : Quiet(t) /\ LoadStep(t, Paths)
    \/ Quiet(Unloader) /\ CleanupStep

SpecSeq == Init /\ [][NextSeq]_vars

\* Startup: plugin_system_init runs alone, before any caller exists.
NextStartup ==
    \/ SystemInitLoad
    \/ ScanPlugins
    \/ DirForeachEntry
    \/ DirForeachEnd
    \/ SystemInitPrune

SpecStartup == InitStartup /\ [][NextStartup]_vars

\* ------------------------------------------------------------------ claims
Finished(h) == result[h] \notin {"none", "running"}

ValidHeader(m) ==
    /\ m.opens
    /\ m.sym
    /\ m.magic = AUD_PLUGIN_MAGIC
    /\ m.version >= AUD_PLUGIN_VERSION_MIN
    /\ m.version <= AUD_PLUGIN_VERSION

\* C1: every entry of the loaded-set refers to a module whose descriptor was
\* found, whose magic is the compile-time magic and whose version lies in
\* [MIN, CURRENT].
C1_LoadedEntriesValid == \A h \in LoadedSet : ValidHeader(Header(h))

\* A plugin of the oldest supported version is loaded and a module without
\* the descriptor symbol was turned away.
C1_Witness ==
    /\ \E h \in LoadedSet : Header(h).version = AUD_PLUGIN_VERSION_MIN
    /\ \E g \in Calls : result[g] = "NotAPlugin" /\ ~ Header(g).sym

\* C2 as stated: every module that opens and has the right magic and a
\* supported version loads successfully.
C2_Original ==
    \A h \in Calls :
        Finished(h) /\ ValidHeader(Header(h)) => result[h] = "OK"

\* C2 amended: a module that opens, has the right magic and a supported
\* version, and whose init hook (run only for Transport, Playlist, Input and
\* Effect, and only when present) does not return failure, loads
\* successfully: the call returns the descriptor and its entry is in the
\* loaded-set when it returns.
C2_ValidLoadSucceeds ==
    [][\A h \in Calls :
        LET m == Catalogue[filename'[h]]
        IN  (/\ ~ Finished(h)
             /\ Finished(h)'
             /\ ValidHeader(m)
             /\ ~ (m.type \in {"Transport", "Playlist", "Input", "Effect"}
                   /\ m.hasInit /\ ~ m.initOK))
            => (result'[h] = "OK" /\ h \in LoadedSet')]_vars

\* An Output plugin whose init hook would fail has been loaded.
C2_Witness ==
    \E h \in LoadedSet :
        /\ result[h] = "OK"
        /\ Header(h).type = "Output"
        /\ Header(h).hasInit
        /\ ~ Header(h).initOK

\* C3: a module without the descriptor symbol, or with a wrong magic, fails
\* with NotAPlugin whatever its version, kind and hooks: no init hook runs,
\* its handle is closed exactly once, and the loaded-set is left as it was.
C3_NotAPlugin ==
    [][\A h \in Calls :
        LET m == Catalogue[filename'[h]]
        IN  (filename'[h] # NULL /\ m.opens
             /\ (~ m.sym \/ m.magic # AUD_PLUGIN_MAGIC))
            => (/\ result'[h] = "NotAPlugin"
                /\ initRes'[h] = "none"
                /\ closeCount'[h] = 1
                /\ h \notin LoadedSet'
                /\ (~ Finished(h) => LoadedSeq' = LoadedSeq))]_vars

\* A module with a wrong magic and a supported version was turned away while
\* a plugin was loaded.
C3_Witness ==
    \E h \in Calls :
        /\ result[h] = "NotAPlugin"
        /\ Header(h).sym
        /\ Header(h).version = AUD_PLUGIN_VERSION
        /\ closeCount[h] = 1
        /\ LoadedSet # {}

\* C4 as stated: a descriptor version outside [MIN, CURRENT] always fails
\* with IncompatibleVersion and with no other error.
C4_Original ==
    \A h \in Calls :
        (/\ Finished(h)
         /\ Header(h).opens
         /\ Header(h).sym
         /\ Incompatible(Header(h)))
        => result[h] = "IncompatibleVersion"

\* C4 amended: a module whose descriptor is found with the right magic and
\* whose version is below MIN or above CURRENT fails with IncompatibleVersion
\* and no other error; its handle is closed and no entry is added.
C4_IncompatibleVersion ==
    [][\A h \in Calls :
        LET m == Catalogue[filename'[h]]
        IN  (/\ filename'[h] # NULL /\ m.opens /\ m.sym
             /\ m.magic = AUD_PLUGIN_MAGIC
             /\ (m.version < AUD_PLUGIN_VERSION_MIN
                 \/ m.version > AUD_PLUGIN_VERSION))
            => (/\ result'[h] = "IncompatibleVersion"
                /\ closeCount'[h] = 1
                /\ h \notin LoadedSet'
                /\ (~ Finished(h) => LoadedSeq' = LoadedSeq))]_vars

\* A module one version too new was turned away while a plugin was loaded.
C4_Witness ==
    \E h \in Calls :
        /\ result[h] = "IncompatibleVersion"
        /\ Header(h).version = AUD_PLUGIN_VERSION + 1
        /\ closeCount[h] = 1
        /\ LoadedSet # {}

\* C5: when the init hook of a Transport, Playlist, Input or Effect plugin
\* returns failure the call fails with InitFailed, the handle is closed
\* exactly once and the loaded-set is unchanged; no entry of the loaded-set
\* has an init hook that failed or has not returned success.
C5_InitFailed ==
    [][/\ \A h \in Calls :
            initRes'[h] = "fail"
            => (/\ result'[h] = "InitFailed"
                /\ closeCount'[h] = 1
                /\ h \notin LoadedSet'
                /\ (~ Finished(h) => LoadedSeq' = LoadedSeq))
       /\ \A h \in LoadedSet' :
            (Header(h)'.type \in {"Transport", "Playlist", "Input", "Effect"}
             /\ Header(h)'.hasInit)
            => initRes'[h] = "ok"]_vars

\* An Input plugin's init hook failed while another plugin was loaded.
C5_Witness ==
    \E h \in Calls :
        /\ result[h] = "InitFailed"
        /\ initRes[h] = "fail"
        /\ closeCount[h] = 1
        /\ \E g \in LoadedSet : initRes[g] = "ok"

C7_SecondUnloadAllIdle ==
    [][(prevOp = "unload" /\ pc'[Unloader] # pc[Unloader])
       => /\ closeCount' = closeCount
          /\ cleanupCalls' = cleanupCalls
          /\ loaded_modules' = NULL
          /\ UNCHANGED << heapVars, initRes, loaderVars, mutex, crashed >>]_vars

\* The second of two consecutive unloadAll calls is in progress, after the
\* first one cleaned up and closed a plugin.
C7_Witness ==
    /\ pc[Unloader] = "u_clear"
    /\ prevOp = "unload"
    /\ \E h \in Calls :
        result[h] = "OK" /\ cleanupCalls[h] = 1 /\ closeCount[h] = 1

\* C8: every module handle is closed at most once, in every interleaving of
\* load calls with unloadAll calls.
C8_ClosedAtMostOnce == \A h \in Calls : closeCount[h] <= 1

\* C9: the loaded-set never holds two entries for the same path.
C9_NoDuplicatePath ==
    \A i, j \in 1 .. Len(LoadedSeq) :
        i # j => filename[LoadedSeq[i]] # filename[LoadedSeq[j]]

\* C10: every step that changes the loaded-set (the head, a node's link, or
\* the release of a node or of a LoadedModule) is taken by the thread that
\* holds the mutex.
C10_MutationsUnderMutex ==
    [][(heapVars' # heapVars)
       => (mutex # NULL /\ pc'[mutex] # pc[mutex])]_vars

\* C11: when loads run concurrently and no unloadAll has run, then once all
\* of them have returned the loaded-set holds exactly the calls that
\* succeeded, each once: no insertion is lost or duplicated.
C11_NoLostInsertion ==
    (unloadCalls = 0 /\ \A t \in Loaders : pc[t] = "idle")
    => /\ LoadedSet = { h \in Calls : result[h] = "OK" }
       /\ Len(LoadedSeq) = Cardinality(LoadedSet)

\* Two loads of distinct valid plugins have returned and both are recorded.
C11_Witness ==
    /\ unloadCalls = 0
    /\ \A t \in Loaders : pc[t] = "idle"
    /\ \E g, h \in LoadedSet :
        /\ filename[g] # filename[h]
        /\ result[g] = "OK"
        /\ result[h] = "OK"
    /\ Len(LoadedSeq) = 2

\* C12: within a shutdown every cleanup hook call and every module close
\* comes before the registry is saved, and each shutdown saves exactly once.
C12_SaveAfterUnload ==
    [][/\ (\/ cleanupCalls' # cleanupCalls
           \/ (pc[Unloader] = "u_close" /\ closeCount' # closeCount))
          => saveCount < unloadCalls
       /\ (pc'[Unloader] = "idle" => saveCount' = unloadCalls')]_vars

\* The register calls made so far, in order.
RegisterEvents == SelectSeq(events, LAMBDA e : e[1] = "register")

\* A candidate, as the scanner's contract words it: the name ends with the
\* plugin suffix whatever the case of its letters, and stat, following
\* symbolic links, reports a regular file.
IsCandidate(f) ==
    /\ Len(f.name) >= 3
    /\ SubSeq(f.name, Len(f.name) - 2, Len(f.name)) \in
            { << ".", x, y >> : x \in {"s", "S"}, y \in {"o", "O"} }
    /\ ~ f.statErr
    /\ \/ f.type = "regular"
       \/ (f.type = "symlink" /\ f.target = "regular")

\* The entries on disk, as (directory, file) pairs.
OnDisk == { df \in Dirs \X Files : df[2] \in fs[df[1]].files }

\* The register call a candidate is due: its path and modification time.
Registration(df) ==
    << "register", plugin_dir_list[df[1]], FileCatalogue[df[2]].name,
       FileCatalogue[df[2]].mtime >>

CandidatesOnDisk == { df \in OnDisk : IsCandidate(FileCatalogue[df[2]]) }

\* C13: when the scan is over, register has been called exactly once for
\* every candidate, with its path and modification time, and never for an
\* entry that is not a candidate: N candidates, N registrations.
C13_RegistersExactlyCandidates ==
    sysPc = "done"
    => /\ Len(RegisterEvents) = Cardinality(CandidatesOnDisk)
       /\ { RegisterEvents[i] : i \in 1 .. Len(RegisterEvents) } =
            { Registration(df) : df \in CandidatesOnDisk }

\* A scan is over that found an upper-case candidate and a directory whose
\* name carries the suffix.
C13_Witness ==
    /\ sysPc = "done"
    /\ Len(RegisterEvents) = 1
    /\ \E df \in OnDisk : FileCatalogue[df[2]].name[3] = "S"
    /\ \E df \in OnDisk : FileCatalogue[df[2]].type = "directory"

\* The positions of the events of one kind.
EventsOf(kind) == { i \in 1 .. Len(events) : events[i][1] = kind }

\* C14: at startup the registry is loaded first and exactly once, then come
\* the register calls of the scan, then prune exactly once; prune is never
\* called while a directory is still to be scanned, and nothing is registered
\* before the load or after the prune.
C14_LoadScanPrune ==
    /\ sysPc # "start" => EventsOf("load") = {1}
    /\ sysPc = "start" => events = << >>
    /\ \A i \in EventsOf("prune") :
        /\ i = Len(events)
        /\ Cardinality({ j \in EventsOf("scan") : j < i }) = 7
    /\ sysPc = "done" => Cardinality(EventsOf("prune")) = 1

\* Startup is over: load, seven scans with two registrations, prune.
C14_Witness ==
    /\ sysPc = "done"
    /\ Cardinality(EventsOf("register")) = 2
    /\ events[Len(events)] = << "prune" >>

\* The entries on disk whose name carries the suffix and on which stat fails.
StatFailuresOnDisk ==
    { df \in OnDisk :
        /\ FileCatalogue[df[2]].statErr
        /\ FileCatalogue[df[2]].name[Len(FileCatalogue[df[2]].name)] \in {"o", "O"} }

\* C15: a stat failure on a suffix-matching file registers nothing for that
\* file and does not stop the scan: every candidate of the same directory
\* and of every other directory is registered, and prune runs afterward.
C15_StatFailureSkipsOneFile ==
    (sysPc = "done" /\ StatFailuresOnDisk # {})
    => /\ \A df \in StatFailuresOnDisk :
            \A i \in EventsOf("register") :
                ~ (/\ events[i][2] = plugin_dir_list[df[1]]
                   /\ events[i][3] = FileCatalogue[df[2]].name)
       /\ \A df \in CandidatesOnDisk :
            \E i \in EventsOf("register") : events[i] = Registration(df)
       /\ events[Len(events)] = << "prune" >>

\* The scan is over; a directory held a file on which stat failed and, after
\* it, a candidate, which was registered.
C15_Witness ==
    /\ sysPc = "done"
    /\ \E bad \in StatFailuresOnDisk :
        \E good \in CandidatesOnDisk :
            /\ good[1] = bad[1]
            /\ good[2] > bad[2]
            /\ \E i \in EventsOf("register") : events[i] = Registration(good)

HookKinds == {"Transport", "Playlist", "Input", "Effect"}

\* C16: init and cleanup hooks are invoked only for Transport, Playlist,
\* Input and Effect plugins.  For Output, General and Visualization neither
\* hook is ever invoked, even when present, and the load succeeds whatever
\* init would return.  For the four kinds init is invoked at most once per
\* load and only after the magic and version checks passed.
C16_HooksOnlyForFourKinds ==
    [][/\ \A t \in Loaders :
            (pc[t] = "init" /\ pc'[t] # "init")
            => /\ initRes[module[t]] = "none"
               /\ ValidHeader(Header(module[t]))
               /\ Header(module[t]).type \in HookKinds
       /\ \A h \in Calls :
            filename'[h] # NULL
            => LET m == Catalogue[filename'[h]]
               IN  /\ initRes'[h] # "none"
                        => (m.type \in HookKinds /\ m.hasInit /\ ValidHeader(m))
                   /\ cleanupCalls'[h] > 0
                        => (m.type \in HookKinds /\ m.hasCleanup)
                   /\ (m.type \notin HookKinds /\ ValidHeader(m) /\ Finished(h)')
                        => result'[h] = "OK"]_vars

\* An Output plugin with both hooks, whose init would fail, was loaded and
\* unloaded without either hook being run.
C16_Witness ==
    \E h \in Calls :
        /\ result[h] = "OK"
        /\ Header(h).type = "Output"
        /\ Header(h).hasInit
        /\ Header(h).hasCleanup
        /\ closeCount[h] = 1
        /\ initRes[h] = "none"
        /\ cleanupCalls[h] = 0

\* C17: no thread holds the mutex while it executes an init or a cleanup
\* hook, so a hook that calls plugin_load finds the mutex free of its own
\* thread, and two threads can be inside their init hooks at the same time.
C17_NoMutexInHooks ==
    /\ \A t \in Loaders : pc[t] = "init" => mutex # t
    /\ pc[Unloader] = "u_hook" => mutex # Unloader

\* Two loader threads are inside init hooks at the same time.
C17_Witness ==
    \E s, t \in Loaders :
        /\ s # t
        /\ pc[s] = "init"
        /\ pc[t] = "init"
        /\ module[s] # module[t]

RECURSIVE ScannedDirs(_)
ScannedDirs(es) ==
    IF es = << >> THEN << >>
    ELSE IF Head(es)[1] = "scan" THEN << Head(es)[2] >> \o ScannedDirs(Tail(es))
    ELSE ScannedDirs(Tail(es))

\* C19: when plugin_system_init has returned, exactly seven directories
\* have been scanned, once each and whatever they hold, in the order
\* Transport, Container, Input, Output, Effect, General, Visualization.
C19_SevenDirsInOrder ==
    sysPc = "done"
        => ScannedDirs(events) = << "Transport", "Container", "Input", "Output",
                                    "Effect", "General", "Visualization" >>

\* Startup has finished although the Container directory is missing and a
\* later directory held a plugin file that was registered.
C19_Witness ==
    /\ sysPc = "done"
    /\ Len(ScannedDirs(events)) = 7
    /\ \E d \in Dirs : plugin_dir_list[d] = "Container" /\ fs[d].missing
    /\ \E i \in 1..Len(events) :
          events[i][1] = "register" /\ events[i][2] = "Visualization"

\* C20: whenever no call is in progress, the handle of every successful load
\* has been closed, or it is still open and exactly one entry of the
\* loaded-set, itself not released, refers to it; this is what makes every
\* loaded plugin reachable for a later unloadAll, also when its load ran
\* while an unloadAll was in progress.
C20_LoadedPluginsNotLost ==
    (\A t \in Threads : pc[t] = "idle")
        => \A h \in Calls :
             result[h] = "OK"
                => \/ closeCount[h] >= 1
                   \/ /\ closeCount[h] = 0
                      /\ h \notin slotFreed
                      /\ h \notin nodeFreed
                      /\ Cardinality({ i \in 1 .. Len(LoadedSeq) :
                                         LoadedSeq[i] = h }) = 1
====
